---- MODULE Spec2Model ----
(***************************************************************************)
(* Model of upload_coatings_products.py: the value normalizer              *)
(* (convert_to_json_safe, prepare_batch), the table clear (clear_table),   *)
(* the batch upload with per-record fallback (upload_in_batches) and the   *)
(* orchestration with its two confirmation prompts (main).                 *)
(*                                                                         *)
(* The remote table is the environment: a sequence of rows with a unique   *)
(* constraint on sku, whose calls may also fail for reasons of their own   *)
(* when `flaky` holds.                                                     *)
(***************************************************************************)
EXTENDS Integers, Sequences, FiniteSets, TLC

VARIABLES
    \* ---- arguments and locals of upload_in_batches
    data,          \* the dataset: a sequence of records (0-based in the code)
    batch_size,    \* batch_size argument
    mode,          \* mode argument: "insert", "upsert" or "replace"
    pc,            \* control position
    i,             \* loop variable of `for i in range(0, total_rows, batch_size)`
    idx,           \* enumerate() index of the per-record fallback
    cleaned_batch, \* prepare_batch(batch) of the current batch
    successful,    \* local counter
    failed,        \* local counter
    failed_rows,   \* local list of {'row','error','data'}
    artifact,      \* TRUE once failed_rows.json has been written
    raised,        \* TRUE when an exception left the function
    before,        \* history: the two counters when the current batch began
    \* ---- the remote table and what was asked of it
    store,         \* rows held by the table
    flaky,         \* the service may fail a call for reasons of its own
    calls,         \* history: every call made on the client, in order
    \* ---- main and clear_table
    UPLOAD_MODE,   \* the configured upload mode
    clear_response,   \* what was typed at the 'DELETE ALL' prompt
    clear_ret,        \* return value of clear_table: "none" before it returns,
                      \* then "True" or "False"
    confirm_response, \* what was typed at the continue prompt
    \* ---- a second run of the script against the same table
    run,           \* 1 or 2
    store0,        \* the table as it was when the current run began
    \* ---- convert_to_json_safe / prepare_batch called on their own
    nbatch,        \* argument of prepare_batch
    nout,          \* cleaned rows produced so far
    nraised,       \* an exception left convert_to_json_safe
    empty_truth_raises \* the installed numpy raises on bool(empty array)

vars == <<data, batch_size, mode, pc, i, idx, cleaned_batch, successful,
          failed, failed_rows, artifact, raised, before, store, flaky, calls,
          UPLOAD_MODE, clear_response, clear_ret, confirm_response,
          run, store0, nbatch, nout, nraised, empty_truth_raises>>

uploadVars == <<data, batch_size, mode, i, idx, cleaned_batch, successful,
                failed, failed_rows, artifact, raised, before>>
mainVars == <<UPLOAD_MODE, clear_response, clear_ret, confirm_response>>
rerunVars == <<run, store0>>
normVars == <<nbatch, nout, nraised>>

----------------------------------------------------------------------------
\* Bounds of the model and constants of the program

MaxRows == 3
MaxBatch == 2
MaxArr == 2
MaxNormBatch == 2
BATCH_SIZE == 500
ERROR_TRUNC == 200

Min(a, b) == IF a < b THEN a ELSE b

----------------------------------------------------------------------------
\* Values of a cell.  k is the Python type, f the class of a float payload
\* ("fin", "nan", "inf", "ninf"), n a small payload (the number, the sku, the
\* instant), xs the elements of an array-like value (each a float [f, n]).

Elem(f, n) == [f |-> f, n |-> n]
Val(k, f, n, xs) == [k |-> k, f |-> f, n |-> n, xs |-> xs]

PyNone == Val("None", "fin", 0, <<>>)
NaT == Val("NaT", "fin", 0, <<>>)
PyInt(n) == Val("int", "fin", n, <<>>)
PyFloat(f, n) == Val("float", f, n, <<>>)
NpInt(n) == Val("np.integer", "fin", n, <<>>)
NpFloat(f, n) == Val("np.floating", f, n, <<>>)
PyStr(n) == Val("str", "fin", n, <<>>)
IsoStr(n) == Val("isostr", "fin", n, <<>>)
PyBool(n) == Val("bool", "fin", n, <<>>)
Timestamp(n) == Val("Timestamp", "fin", n, <<>>)
NdArray(xs) == Val("ndarray", "fin", 0, xs)
PyList(xs) == Val("list", "fin", 0, xs)
\* a scalar no branch classifies, e.g. the datetime.time of an Excel time cell
Opaque == Val("opaque", "fin", 0, <<>>)

Floats == {Elem("fin", 1), Elem("nan", 0), Elem("inf", 0), Elem("ninf", 0)}
Arrays == UNION {[1..m -> Floats] : m \in 0..MaxArr}

Scalars ==
    {PyNone, NaT, PyInt(1), NpInt(1), PyStr(1), PyBool(1), Timestamp(1), Opaque}
    \cup {PyFloat(e.f, e.n) : e \in Floats}
    \cup {NpFloat(e.f, e.n) : e \in Floats}
ArrayLikes == {NdArray(xs) : xs \in Arrays} \cup {PyList(xs) : xs \in Arrays}
Values == Scalars \cup ArrayLikes

\* pd.isna on a scalar: None, NaT and a float NaN are missing
IsNaScalar(v) ==
    \/ v.k \in {"None", "NaT"}
    \/ v.k \in {"float", "np.floating"} /\ v.f = "nan"

\* `pd.isna(obj) or obj is None` (line 68): "true", "false" or "raise".
\* On a list or an ndarray pd.isna answers elementwise, and the truth value of
\* that array is its element when it has one, an error when it has several,
\* and for an empty one False or an error, as the installed numpy decides.
IsNaTruth(v, emptyRaises) ==
    IF v.k \in {"ndarray", "list"}
    THEN CASE Len(v.xs) = 0 -> IF emptyRaises THEN "raise" ELSE "false"
           [] Len(v.xs) = 1 -> IF v.xs[1].f = "nan" THEN "true" ELSE "false"
           [] OTHER -> "raise"
    ELSE IF IsNaScalar(v) THEN "true" ELSE "false"

Returned(v) == [raised |-> FALSE, val |-> v]
Raised == [raised |-> TRUE, val |-> PyNone]

\* convert_to_json_safe (lines 66-79)
convert_to_json_safe(obj, emptyRaises) ==
    LET t == IsNaTruth(obj, emptyRaises) IN
    CASE t = "raise" -> Raised
      [] t = "true" -> Returned(PyNone)
      [] OTHER ->
           CASE obj.k \in {"np.integer", "np.floating"} ->
                  IF obj.f \in {"nan", "inf", "ninf"}
                  THEN Returned(PyNone)
                  ELSE Returned(IF obj.k = "np.integer"
                                THEN PyInt(obj.n) ELSE PyFloat(obj.f, obj.n))
             [] obj.k = "ndarray" -> Returned(PyList(obj.xs))
             [] obj.k = "Timestamp" -> Returned(IsoStr(obj.n))
             [] OTHER -> Returned(obj)

\* A NaN or Infinity marker in a value
HasNanInf(v) ==
    \/ v.k \in {"float", "np.floating"} /\ v.f # "fin"
    \/ \E j \in DOMAIN v.xs : v.xs[j].f # "fin"

\* Records: {'sku': ..., 'val': ...}
Rec(s, v) == [sku |-> s, val |-> v]

\* the per-row body of prepare_batch (lines 85-88): both fields are converted
CleanRow(row, emptyRaises) ==
    LET s == convert_to_json_safe(row.sku, emptyRaises)
        v == convert_to_json_safe(row.val, emptyRaises)
    IN IF s.raised \/ v.raised
       THEN [raised |-> TRUE, row |-> row]
       ELSE [raised |-> FALSE, row |-> Rec(s.val, v.val)]

\* prepare_batch (lines 81-89): the cleaned rows in order, unless the
\* conversion of some row raises, and then the exception leaves the function
prepare_batch(batch, emptyRaises) ==
    IF \E j \in DOMAIN batch : CleanRow(batch[j], emptyRaises).raised
    THEN [raised |-> TRUE, rows |-> <<>>]
    ELSE [raised |-> FALSE,
          rows |-> [j \in DOMAIN batch |-> CleanRow(batch[j], emptyRaises).row]]

----------------------------------------------------------------------------
\* Typed input at a prompt: a sequence of characters

DELETE_ALL == <<"D", "E", "L", "E", "T", "E", " ", "A", "L", "L">>
YES == <<"y", "e", "s">>

\* str.lower() on the characters the inputs use
LowerChar(c) ==
    CASE c = "D" -> "d" [] c = "E" -> "e" [] c = "L" -> "l" [] c = "T" -> "t"
      [] c = "A" -> "a" [] c = "Y" -> "y" [] c = "S" -> "s" [] c = "N" -> "n"
      [] c = "O" -> "o" [] OTHER -> c
Lower(s) == [j \in DOMAIN s |-> LowerChar(s[j])]

ClearInputs == {DELETE_ALL, Lower(DELETE_ALL), <<>>, YES}
ConfirmInputs == {YES, <<"Y", "E", "S">>, <<"n", "o">>, <<>>}
NoInput == <<"-">>

----------------------------------------------------------------------------
\* Exceptions and error texts.  A text is its wording and its length, so that
\* a slice [:k] is a cut of the length.

Text(t, n) == [text |-> t, len |-> n]
Exc(cls, t, n) == [cls |-> cls, msg |-> Text(t, n)]
NoExc == Exc("none", "", 0)

\* str(e)[:k]
Truncate(msg, k) == Text(msg.text, Min(msg.len, k))

\* the literal of line 168
JSON_ERROR == Text("JSON error", 10)

TypeErrorExc == Exc("TypeError", "Object of type time is not JSON serializable", 44)
DuplicateExc == Exc("APIError", "23505 duplicate key value violates unique constraint", 230)
SecondTimeExc == Exc("APIError", "21000 ON CONFLICT DO UPDATE command cannot affect row a second time", 210)
ServiceExc == Exc("APIError", "service unavailable", 19)

\* what json.dumps accepts (line 155)
Serializable(v) == v.k \in {"None", "int", "float", "str", "isostr", "bool", "list"}

\* json.dumps(row) (line 155): a value it cannot encode raises TypeError
json_dumps(row) ==
    IF Serializable(row.sku) /\ Serializable(row.val) THEN NoExc ELSE TypeErrorExc

\* `except json.JSONDecodeError` (line 164): catches that class only
IsJSONDecodeError(exc) == exc.cls = "JSONDecodeError"

\* a handler that catches the serialization error only
IsException_OnlyTypeError(exc) == exc.cls = "TypeError"

\* `except Exception` (lines 146, 170, 106)
IsException(exc) == exc.cls \in {"TypeError", "ValueError", "APIError", "JSONDecodeError"}

----------------------------------------------------------------------------
\* The remote table

Skus == {PyStr(1), PyStr(2)}
EmptySku == Val("str", "fin", 0, <<>>)

StoreSkus(st) == {st[j].sku : j \in DOMAIN st}
HasDupSku(rows) == \E a, b \in DOMAIN rows : a < b /\ rows[a].sku = rows[b].sku
AllSerializable(rows) == \A j \in DOMAIN rows : json_dumps(rows[j]) = NoExc

\* insert-or-update by sku of one row
UpsertRow(st, row) ==
    IF row.sku \in StoreSkus(st)
    THEN [j \in DOMAIN st |-> IF st[j].sku = row.sku THEN row ELSE st[j]]
    ELSE Append(st, row)

RECURSIVE UpsertRows(_, _)
UpsertRows(st, rows) ==
    IF rows = <<>> THEN st ELSE UpsertRows(UpsertRow(st, Head(rows)), Tail(rows))

Answer(exc, st) == [exc |-> exc, store |-> st]

\* the answers .insert(rows).execute() may give (lines 142, 161)
StoreInsert(st, rows, flk) ==
    IF ~AllSerializable(rows) THEN {Answer(TypeErrorExc, st)}
    ELSE (IF HasDupSku(rows) \/ \E j \in DOMAIN rows : rows[j].sku \in StoreSkus(st)
          THEN {Answer(DuplicateExc, st)}
          ELSE {Answer(NoExc, st \o rows)})
         \cup (IF flk THEN {Answer(ServiceExc, st)} ELSE {})

\* the answers .upsert(rows).execute() may give (lines 137, 159)
StoreUpsert(st, rows, flk) ==
    IF ~AllSerializable(rows) THEN {Answer(TypeErrorExc, st)}
    ELSE {Answer(NoExc, UpsertRows(st, rows))}
         \cup (IF HasDupSku(rows) THEN {Answer(SecondTimeExc, st)} ELSE {})
         \cup (IF flk THEN {Answer(ServiceExc, st)} ELSE {})

\* the answers .delete().neq('sku', '').execute() may give (line 103)
StoreDelete(st, flk) ==
    {Answer(NoExc, SelectSeq(st, LAMBDA r : r.sku = EmptySku))}
    \cup (IF flk THEN {Answer(ServiceExc, st)} ELSE {})

StoreWrite(op, st, rows, flk) ==
    IF op = "upsert" THEN StoreUpsert(st, rows, flk) ELSE StoreInsert(st, rows, flk)

\* an entry of the call history
Call(kind, op, lo, n, ok) == [kind |-> kind, op |-> op, lo |-> lo, n |-> n, ok |-> ok]

----------------------------------------------------------------------------
\* upload_in_batches (lines 110-198)

Modes == {"insert", "upsert", "replace"}

\* range(start, stop, step) (line 126)
RECURSIVE Range(_, _, _)
Range(start, stop, step) ==
    IF start < stop THEN <<start>> \o Range(start + step, stop, step) ELSE <<>>

\* the slice one record short
Slice_DropLast(d, lo, hi) == SubSeq(d, lo + 1, Min(hi, Len(d)) - 1)

\* data[lo:hi] on a 0-based list (line 127)
Slice(d, lo, hi) == SubSeq(d, lo + 1, Min(hi, Len(d)))

\* the mode ignored: always a plain insert
WriteOp_AlwaysInsert(m) == "insert"

\* the operation the mode selects (lines 135, 158)
WriteOp(m) == IF m = "upsert" THEN "upsert" ELSE "insert"

\* the index in the batch taken for the index in the dataset
RowNum_IndexOnly(start, j) == j

\* row_num = i + idx (lines 166, 172)
RowNum(start, j) == start + j

\* a counter left as it was
SuccessAfterRow_NotCounted(s) == s
FailedAfterRow_NotCounted(f) == f

\* successful += 1 (line 162), failed += 1 (lines 165, 171)
SuccessAfterRow(s) == s + 1
FailedAfterRow(f) == f + 1

\* the handlers of the per-record try (lines 164-181): the FailureRecord
FailureRecord(exc, rowNum, row) ==
    IF IsJSONDecodeError(exc)
    THEN [row |-> rowNum, error |-> JSON_ERROR, data |-> row]
    ELSE [row |-> rowNum, error |-> Truncate(exc.msg, ERROR_TRUNC), data |-> row]

total_rows == Len(data)
Starts == Range(0, total_rows, batch_size)
\* the value after i in range(0, total_rows, batch_size) (line 126)
NextI(cur, step) == cur + step
\* total_batches (line 129)
TotalBatches(n, b) == (n + b - 1) \div b

\* lines 112-116
UploadEntry ==
    /\ i' = 0
    /\ idx' = 0
    /\ cleaned_batch' = <<>>
    /\ successful' = 0
    /\ failed' = 0
    /\ failed_rows' = <<>>
    /\ artifact' = FALSE
    /\ raised' = FALSE
    /\ before' = [successful |-> 0, failed |-> 0]

\* The head of one iteration of the batch loop (lines 126-132): the slice and
\* prepare_batch, which runs before the try, so that what it raises leaves the
\* function.
BatchBegin ==
    /\ pc = "loop"
    /\ i < total_rows
    /\ \E prep \in {prepare_batch(Slice(data, i, i + batch_size), empty_truth_raises)} :
         /\ cleaned_batch' = prep.rows
         /\ raised' = prep.raised
         /\ pc' = IF prep.raised THEN "raised" ELSE "bulk"
    /\ before' = [successful |-> successful, failed |-> failed]
    /\ UNCHANGED <<data, batch_size, mode, i, idx, successful, failed, failed_rows,
                   artifact, store, flaky, calls>>
    /\ UNCHANGED <<mainVars, rerunVars, normVars, empty_truth_raises>>

\* what the try of the bulk call leaves (lines 134-151), given its exception
\* (NoExc when the batch was written): the counter and where control goes.
\* len(batch) is the length of the cleaned batch.
BulkOutcome(exc, batchLen) ==
    IF exc = NoExc
    THEN [successful |-> successful + batchLen, i |-> NextI(i, batch_size), idx |-> idx,
          pc |-> "loop", raised |-> FALSE]
    ELSE IF IsException(exc) /\ mode \in Modes
    THEN [successful |-> successful, i |-> i, idx |-> 0,
          pc |-> "fallback", raised |-> FALSE]
    ELSE [successful |-> successful, i |-> i, idx |-> idx,
          pc |-> "raised", raised |-> TRUE]

\* The bulk call of the batch and its outcome (lines 134-151)
BulkAttempt ==
    /\ pc = "bulk"
    /\ \E ans \in StoreWrite(WriteOp(mode), store, cleaned_batch, flaky) :
         LET out == BulkOutcome(ans.exc, Len(cleaned_batch)) IN
         /\ store' = ans.store
         /\ calls' = Append(calls, Call("bulk", WriteOp(mode), i,
                                         Len(cleaned_batch), ans.exc = NoExc))
         /\ successful' = out.successful
         /\ i' = out.i
         /\ idx' = out.idx
         /\ pc' = out.pc
         /\ raised' = out.raised
    /\ UNCHANGED <<data, batch_size, mode, cleaned_batch, failed, failed_rows,
                   artifact, before, flaky>>
    /\ UNCHANGED <<mainVars, rerunVars, normVars, empty_truth_raises>>

\* what one pass of the per-record loop leaves (lines 152-181), given the
\* exception of the try body (NoExc when the row was written)
RowOutcome(exc, rowNum, row) ==
    IF exc = NoExc
    THEN [successful |-> SuccessAfterRow(successful), failed |-> failed,
          failed_rows |-> failed_rows, raised |-> FALSE]
    ELSE IF IsJSONDecodeError(exc) \/ IsException(exc)
    THEN [successful |-> successful, failed |-> FailedAfterRow(failed),
          failed_rows |-> Append(failed_rows, FailureRecord(exc, rowNum, row)),
          raised |-> FALSE]
    ELSE [successful |-> successful, failed |-> failed,
          failed_rows |-> failed_rows, raised |-> TRUE]

\* One pass of the per-record loop (lines 152-181)
FallbackRow ==
    /\ pc = "fallback"
    /\ idx < Len(cleaned_batch)
    /\ LET row == cleaned_batch[idx + 1]
           rowNum == RowNum(i, idx)
           dumped == json_dumps(row)
       IN \E ans \in (IF dumped # NoExc THEN {Answer(dumped, store)}
                      ELSE StoreWrite(WriteOp(mode), store, <<row>>, flaky)) :
            LET out == RowOutcome(ans.exc, rowNum, row) IN
            /\ store' = ans.store
            /\ calls' = IF dumped # NoExc THEN calls
                        ELSE Append(calls, Call("row", WriteOp(mode), rowNum, 1,
                                                ans.exc = NoExc))
            /\ successful' = out.successful
            /\ failed' = out.failed
            /\ failed_rows' = out.failed_rows
            /\ raised' = out.raised
            /\ IF out.raised
               THEN pc' = "raised" /\ idx' = idx
               ELSE pc' = "fallback" /\ idx' = idx + 1
    /\ UNCHANGED <<data, batch_size, mode, i, cleaned_batch, artifact, before, flaky>>
    /\ UNCHANGED <<mainVars, rerunVars, normVars, empty_truth_raises>>

\* The per-record loop is exhausted: the pacing delay, then the next batch
\* (lines 152, 184)
FallbackEnd ==
    /\ pc = "fallback"
    /\ idx = Len(cleaned_batch)
    /\ i' = NextI(i, batch_size)
    /\ pc' = "loop"
    /\ UNCHANGED <<data, batch_size, mode, idx, cleaned_batch, successful, failed,
                   failed_rows, artifact, raised, before, store, flaky, calls>>
    /\ UNCHANGED <<mainVars, rerunVars, normVars, empty_truth_raises>>

\* The batch loop is exhausted: the summary and the failure file
\* (lines 186-198)
Summary ==
    /\ pc = "loop"
    /\ i >= total_rows
    /\ artifact' = (failed_rows # <<>>)
    /\ pc' = "done"
    /\ UNCHANGED <<data, batch_size, mode, i, idx, cleaned_batch, successful,
                   failed, failed_rows, raised, before, store, flaky, calls>>
    /\ UNCHANGED <<mainVars, rerunVars, normVars, empty_truth_raises>>

----------------------------------------------------------------------------
\* clear_table (lines 91-108) and main (lines 236-301)

\* the phrase compared without regard to case
ClearConfirmed_AnyCase(response) == Lower(response) = Lower(DELETE_ALL)

\* `response != 'DELETE ALL'` negated (line 96)
ClearConfirmed(response) == response = DELETE_ALL

\* `response.lower() != 'yes'` negated (line 296)
UploadConfirmed(response) == Lower(response) = YES

\* The JSON compatibility probe of the first row (lines 267-275): "ok" or
\* "return".  data[0] of an empty dataset raises IndexError inside the try.
FirstRowProbe(d, emptyRaises) ==
    IF Len(d) = 0 THEN "return"
    ELSE LET prep == prepare_batch(<<d[1]>>, emptyRaises) IN
         IF prep.raised THEN "return"
         ELSE IF json_dumps(prep.rows[1]) # NoExc THEN "return" ELSE "ok"

MainProbe ==
    /\ pc = "main"
    /\ pc' = IF FirstRowProbe(data, empty_truth_raises) = "ok" THEN "mode" ELSE "returned"
    /\ UNCHANGED <<uploadVars, store, flaky, calls, mainVars, rerunVars, normVars,
                   empty_truth_raises>>

\* The mode dispatch of main (lines 282-292) with, under 'replace', the whole
\* of clear_table (lines 91-108)
MainMode ==
    /\ pc = "mode"
    /\ IF UPLOAD_MODE = "replace"
       THEN \E response \in ClearInputs :
              /\ clear_response' = response
              /\ IF ~ClearConfirmed(response)
                 THEN /\ clear_ret' = "False"
                      /\ pc' = "returned"
                      /\ UNCHANGED <<store, calls, mode>>
                 ELSE \E ans \in StoreDelete(store, flaky) :
                        /\ store' = ans.store
                        /\ calls' = Append(calls, Call("delete", "delete", 0, 0,
                                                        ans.exc = NoExc))
                        /\ IF ans.exc = NoExc
                           THEN /\ clear_ret' = "True"
                                /\ mode' = "insert"
                                /\ pc' = "confirm"
                           ELSE /\ clear_ret' = "False"
                                /\ pc' = "returned"
                                /\ UNCHANGED mode
       ELSE /\ mode' = IF UPLOAD_MODE = "upsert" THEN "upsert" ELSE "insert"
            /\ pc' = "confirm"
            /\ UNCHANGED <<store, calls, clear_response, clear_ret>>
    /\ UNCHANGED <<data, batch_size, i, idx, cleaned_batch, successful, failed,
                   failed_rows, artifact, raised, before, flaky, UPLOAD_MODE,
                   confirm_response, rerunVars, normVars, empty_truth_raises>>

\* The continue prompt (lines 295-298) and the call of upload_in_batches
\* (line 301)
MainConfirm ==
    /\ pc = "confirm"
    /\ \E response \in ConfirmInputs :
         /\ confirm_response' = response
         /\ IF UploadConfirmed(response)
            THEN pc' = "loop" /\ UploadEntry
            ELSE /\ pc' = "returned"
                 /\ UNCHANGED <<i, idx, cleaned_batch, successful, failed,
                                failed_rows, artifact, raised, before>>
    /\ UNCHANGED <<data, batch_size, mode, store, flaky, calls, UPLOAD_MODE,
                   clear_response, clear_ret, rerunVars, normVars,
                   empty_truth_raises>>

----------------------------------------------------------------------------
\* The script run again on the same records, against the table the first
\* run left (lines 110-116 entered a second time)

Rerun ==
    /\ pc = "done"
    /\ run = 1
    /\ failed = 0
    /\ run' = 2
    /\ store0' = store
    /\ flaky' = FALSE
    /\ calls' = <<>>
    /\ pc' = "loop"
    /\ UploadEntry
    /\ UNCHANGED <<data, batch_size, mode, store, mainVars, normVars,
                   empty_truth_raises>>

----------------------------------------------------------------------------
\* prepare_batch called on its own (lines 81-89), one row per step

NormRow ==
    /\ pc = "norm"
    /\ Len(nout) < Len(nbatch)
    /\ LET c == CleanRow(nbatch[Len(nout) + 1], empty_truth_raises) IN
       IF c.raised
       THEN nraised' = TRUE /\ pc' = "norm_raised" /\ nout' = nout
       ELSE nraised' = FALSE /\ pc' = "norm" /\ nout' = Append(nout, c.row)
    /\ UNCHANGED <<uploadVars, store, flaky, calls, mainVars, rerunVars, nbatch,
                   empty_truth_raises>>

NormReturn ==
    /\ pc = "norm"
    /\ Len(nout) = Len(nbatch)
    /\ pc' = "norm_done"
    /\ UNCHANGED <<uploadVars, store, flaky, calls, mainVars, rerunVars, normVars,
                   empty_truth_raises>>

----------------------------------------------------------------------------
\* Initial states

\* the cells a spreadsheet row holds here: a NaN and an unclassified scalar
UploadVals == {NpFloat("nan", 0), Opaque}
Records == {Rec(s, v) : s \in Skus, v \in UploadVals}
Datasets == UNION {[1..m -> Records] : m \in 0..MaxRows}
BatchSizes == (1..MaxBatch) \cup {BATCH_SIZE}
InitialStores == {<<>>, <<Rec(PyStr(1), PyNone)>>}
NormBatches == UNION {[1..m -> {Rec(PyStr(1), v) : v \in Values}] : m \in 1..MaxNormBatch}

InitLocals ==
    /\ i = 0
    /\ idx = 0
    /\ cleaned_batch = <<>>
    /\ successful = 0
    /\ failed = 0
    /\ failed_rows = <<>>
    /\ artifact = FALSE
    /\ raised = FALSE
    /\ before = [successful |-> 0, failed |-> 0]

InitMainIdle ==
    /\ clear_response = NoInput
    /\ clear_ret = "none"
    /\ confirm_response = NoInput

InitNormIdle ==
    /\ nbatch = <<>>
    /\ nout = <<>>
    /\ nraised = FALSE

InitTable ==
    /\ store \in InitialStores
    /\ store0 = store
    /\ calls = <<>>
    /\ run = 1

\* upload_in_batches called with any dataset, batch size and mode
Init ==
    /\ data \in Datasets
    /\ batch_size \in BatchSizes
    /\ mode \in Modes
    /\ pc = "loop"
    /\ InitLocals
    /\ InitTable
    /\ flaky = TRUE
    /\ UPLOAD_MODE = mode
    /\ InitMainIdle
    /\ InitNormIdle
    /\ empty_truth_raises \in BOOLEAN

Next == BatchBegin \/ BulkAttempt \/ FallbackRow \/ FallbackEnd \/ Summary

Spec == Init /\ [][Next]_vars

\* the script from main, with any configured mode and batch size
MainInit ==
    /\ data \in Datasets
    /\ batch_size \in BatchSizes
    /\ UPLOAD_MODE \in Modes
    /\ mode = "unset"
    /\ pc = "main"
    /\ InitLocals
    /\ InitTable
    /\ flaky = TRUE
    /\ InitMainIdle
    /\ InitNormIdle
    /\ empty_truth_raises \in BOOLEAN

MainNext ==
    MainProbe \/ MainMode \/ MainConfirm \/ BatchBegin \/ BulkAttempt
    \/ FallbackRow
    \/ FallbackEnd \/ Summary

MainSpec == MainInit /\ [][MainNext]_vars

\* two runs in upsert mode on the same records
RerunInit ==
    /\ data \in Datasets
    /\ batch_size \in BatchSizes
    /\ mode = "upsert"
    /\ pc = "loop"
    /\ InitLocals
    /\ InitTable
    /\ flaky \in BOOLEAN
    /\ UPLOAD_MODE = mode
    /\ InitMainIdle
    /\ InitNormIdle
    /\ empty_truth_raises \in BOOLEAN

RerunNext == BatchBegin \/ BulkAttempt \/ FallbackRow \/ FallbackEnd \/ Summary \/ Rerun

RerunSpec == RerunInit /\ [][RerunNext]_vars

\* prepare_batch on any batch of any values
NormInit ==
    /\ nbatch \in NormBatches
    /\ nout = <<>>
    /\ nraised = FALSE
    /\ pc = "norm"
    /\ empty_truth_raises \in BOOLEAN
    /\ data = <<>>
    /\ batch_size = BATCH_SIZE
    /\ mode = "insert"
    /\ InitLocals
    /\ store = <<>>
    /\ store0 = <<>>
    /\ calls = <<>>
    /\ run = 1
    /\ flaky = FALSE
    /\ UPLOAD_MODE = mode
    /\ InitMainIdle

NormNext == NormRow \/ NormReturn

NormSpec == NormInit /\ [][NormNext]_vars

----------------------------------------------------------------------------
\* Reading the call history

BulkCalls == SelectSeq(calls, LAMBDA c : c.kind = "bulk")
Covers(c, r) == c.kind = "bulk" /\ c.lo <= r /\ r < c.lo + c.n
BulkFailedFor(r) == \E p \in DOMAIN calls : Covers(calls[p], r) /\ ~calls[p].ok
BulkOkFor(r) == \E p \in DOMAIN calls : Covers(calls[p], r) /\ calls[p].ok
RowCalled(r) == \E p \in DOMAIN calls : calls[p].kind = "row" /\ calls[p].lo = r
RowOk(r) == \E p \in DOMAIN calls : calls[p].kind = "row" /\ calls[p].lo = r /\ calls[p].ok
RowFailed(r) == \E p \in DOMAIN calls : calls[p].kind = "row" /\ calls[p].lo = r /\ ~calls[p].ok
FailuresOf(r) == {m \in DOMAIN failed_rows : failed_rows[m].row = r}
Mutations == {p \in DOMAIN calls : calls[p].op \in {"insert", "upsert", "delete"}}

\* the per-record fallback of the current batch has gone through every record
FallbackComplete == pc = "fallback" /\ idx = Len(cleaned_batch)
\* dataset positions of the current batch
BatchRows == {i + j - 1 : j \in DOMAIN cleaned_batch}
CeilDiv(n, b) == IF n % b = 0 THEN n \div b ELSE (n \div b) + 1

----------------------------------------------------------------------------
\* C1: when the bulk write of a batch failed and exactly one record of the
\* batch is not JSON-serializable, the completed fallback holds exactly one
\* FailureRecord for that record, its error is the literal "JSON error", its
\* row is the dataset index, no individual write was issued for it, and every
\* other record of the batch had its individual write attempted.
C1_JsonErrorCategory ==
    FallbackComplete =>
      \A j \in DOMAIN cleaned_batch :
        (/\ json_dumps(cleaned_batch[j]) # NoExc
         /\ \A k \in DOMAIN cleaned_batch \ {j} : json_dumps(cleaned_batch[k]) = NoExc)
        => LET r == i + j - 1 IN
           /\ Cardinality(FailuresOf(r)) = 1
           /\ \A m \in FailuresOf(r) : failed_rows[m].error = JSON_ERROR
           /\ ~RowCalled(r)
           /\ \A q \in BatchRows \ {r} : RowCalled(q)

\* What the code does in that case: the same, with the truncated text of the
\* TypeError as the error field.
C1_AsImplemented ==
    FallbackComplete =>
      \A j \in DOMAIN cleaned_batch :
        (/\ json_dumps(cleaned_batch[j]) # NoExc
         /\ \A k \in DOMAIN cleaned_batch \ {j} : json_dumps(cleaned_batch[k]) = NoExc)
        => LET r == i + j - 1 IN
           /\ Cardinality(FailuresOf(r)) = 1
           /\ \A m \in FailuresOf(r) :
                failed_rows[m].error = Truncate(TypeErrorExc.msg, ERROR_TRUNC)
           /\ ~RowCalled(r)
           /\ \A q \in BatchRows \ {r} : RowCalled(q)

----------------------------------------------------------------------------
\* C2: in upsert mode, a batch whose bulk upsert failed and whose individual
\* upserts all succeeded adds exactly its size to the success count, leaves the
\* failure count alone and appends no FailureRecord; when every batch of the
\* run went that way the run ends with successful = total_rows, failed = 0 and
\* no failure file.
C2_FallbackAllSucceed ==
    /\ (FallbackComplete /\ mode = "upsert" /\ \A r \in BatchRows : RowOk(r))
       => /\ successful = before.successful + Len(cleaned_batch)
          /\ failed = before.failed
          /\ \A r \in BatchRows : FailuresOf(r) = {}
    /\ (/\ pc = "done"
        /\ mode = "upsert"
        /\ \A p \in DOMAIN calls : calls[p].kind = "bulk" => ~calls[p].ok
        /\ \A r \in 0..(total_rows - 1) : RowOk(r))
       => /\ successful = total_rows
          /\ failed = 0
          /\ failed_rows = <<>>
          /\ ~artifact

C2_Witness ==
    /\ pc = "done"
    /\ mode = "upsert"
    /\ total_rows = MaxRows
    /\ batch_size = 2
    /\ \A p \in DOMAIN calls : calls[p].kind = "bulk" => ~calls[p].ok
    /\ \A r \in 0..(total_rows - 1) : RowOk(r)
    /\ successful = total_rows

----------------------------------------------------------------------------
\* C3: a run of main that ended on a declined prompt (anything but
\* 'DELETE ALL' at the table-clear prompt, anything but 'yes' at the continue
\* prompt) has issued no insert, upsert or delete.
DeclinedClear == clear_response # NoInput /\ clear_response # DELETE_ALL
DeclinedUpload == confirm_response # NoInput /\ confirm_response # YES
C3_DeclineNoMutation ==
    (pc = "returned" /\ (DeclinedClear \/ DeclinedUpload)) => Mutations = {}

----------------------------------------------------------------------------
\* C4: a second upsert run on the same records, against the table a first
\* fully successful run left, ends with failed = 0 and successful =
\* total_rows; the table never holds two rows of one sku and its set of skus
\* is the one the first run left.
C4_UpsertRerun ==
    run = 2 =>
      /\ ~raised
      /\ ~HasDupSku(store)
      /\ StoreSkus(store) = StoreSkus(store0)
      /\ pc = "done" => /\ failed = 0
                        /\ successful = total_rows
                        /\ failed_rows = <<>>

C4_Witness ==
    /\ run = 2
    /\ pc = "done"
    /\ total_rows = MaxRows
    /\ HasDupSku(data)
    /\ \E p \in DOMAIN calls : calls[p].kind = "row"
    /\ successful = total_rows
    /\ failed = 0

----------------------------------------------------------------------------
\* C5: clear_table asks the table to delete only when the typed input is
\* exactly 'DELETE ALL'; on any other input it returns False with the table
\* untouched; when the delete raises, nothing is propagated and it returns
\* False; it returns True only after a delete that succeeded.
DeleteCalls == {p \in DOMAIN calls : calls[p].op = "delete"}
C5_ClearTable ==
    /\ DeleteCalls # {} => clear_response = DELETE_ALL
    /\ (clear_ret # "none" /\ clear_response # DELETE_ALL)
       => /\ clear_ret = "False"
          /\ store = store0
          /\ calls = <<>>
          /\ pc = "returned"
    /\ (\E p \in DeleteCalls : ~calls[p].ok)
       => /\ clear_ret = "False"
          /\ ~raised
          /\ pc = "returned"
          /\ store = store0
    /\ clear_ret = "True" => (calls # <<>> /\ calls[1].op = "delete" /\ calls[1].ok)
    /\ (clear_response = DELETE_ALL /\ clear_ret = "False")
       => \E p \in DeleteCalls : ~calls[p].ok

C5_Witness ==
    /\ clear_response = Lower(DELETE_ALL)
    /\ clear_ret = "False"
    /\ store # <<>>
    /\ pc = "returned"

----------------------------------------------------------------------------
\* C6: whatever the table answers, no error leaves upload_in_batches, every
\* step is followed by another until the summary is reached, the bulk calls are
\* made batch by batch in dataset order, and the records of a batch whose bulk
\* call failed are tried one by one in batch order, each of them, before the
\* next batch begins.
Attempted(r) == RowCalled(r) \/ FailuresOf(r) # {}
C6_Order ==
    /\ \A k \in DOMAIN BulkCalls : k <= Len(Starts) /\ BulkCalls[k].lo = Starts[k]
    /\ \A p, q \in DOMAIN calls :
         p < q => \/ calls[p].lo < calls[q].lo
                  \/ calls[p].lo = calls[q].lo /\ calls[p].kind = "bulk"
                     /\ calls[q].kind = "row"
    /\ \A p \in DOMAIN calls :
         calls[p].kind = "row" => BulkFailedFor(calls[p].lo)
    /\ \A m, k \in DOMAIN failed_rows : m < k => failed_rows[m].row < failed_rows[k].row
    /\ \A r \in 0..(total_rows - 1) :
         (BulkFailedFor(r) /\ (pc \in {"loop", "done"} \/ r < i)) => Attempted(r)
    /\ pc = "done" => Len(BulkCalls) = Len(Starts)
C6_State ==
    /\ ~raised
    /\ pc \in {"loop", "bulk", "fallback", "done"}
    /\ pc # "done" => ENABLED Next
    /\ C6_Order
\* a bound on the steps left before the summary has been printed
C6_Measure ==
    LET rem == IF i < total_rows THEN total_rows - i ELSE 0 IN
    CASE pc = "loop" -> 4 * rem + 2
      [] pc = "bulk" -> 4 * rem + 1
      [] pc = "fallback" -> 4 * rem - idx
      [] OTHER -> 0
C6_NeverAborts == [](C6_State) /\ [][C6_Measure' < C6_Measure]_vars

C6_Witness ==
    /\ pc = "done"
    /\ \E p, q, t \in DOMAIN calls :
         /\ p < q /\ q < t
         /\ calls[p].kind = "bulk" /\ ~calls[p].ok
         /\ calls[q].kind = "row" /\ ~calls[q].ok
         /\ calls[t].kind = "row" /\ calls[t].lo = calls[q].lo + 1
    /\ \E p, q \in DOMAIN calls :
         /\ p < q
         /\ calls[p].kind = "row" /\ ~calls[p].ok
         /\ calls[q].kind = "bulk"

----------------------------------------------------------------------------
\* C7: the batches are contiguous slices of at most batch_size records that
\* partition the dataset in order: the first starts at 0, each starts where
\* the one before ended, all but the last hold batch_size records, every
\* index lies in exactly one of them and there are ceil(n / b) of them; 1234
\* records in batches of 500 give the sizes 500, 500, 234.
ExampleSizes ==
    LET d == [j \in 1..1234 |-> j]
        st == Range(0, 1234, 500)
    IN [k \in DOMAIN st |-> Len(Slice(d, st[k], st[k] + 500))]
C7_Partition ==
    /\ \A k \in DOMAIN BulkCalls :
         /\ BulkCalls[k].lo = (IF k = 1 THEN 0 ELSE BulkCalls[k - 1].lo + BulkCalls[k - 1].n)
         /\ BulkCalls[k].n >= 1
         /\ BulkCalls[k].n <= batch_size
         /\ BulkCalls[k].lo + BulkCalls[k].n <= total_rows
         /\ (BulkCalls[k].n # batch_size) => BulkCalls[k].lo + BulkCalls[k].n = total_rows
    /\ pc \in {"fallback"} =>
         /\ Len(cleaned_batch) = BulkCalls[Len(BulkCalls)].n
         /\ \A j \in DOMAIN cleaned_batch : cleaned_batch[j].sku = data[i + j].sku
    /\ pc = "done" =>
         /\ Len(BulkCalls) = CeilDiv(total_rows, batch_size)
         /\ Len(BulkCalls) = TotalBatches(total_rows, batch_size)
         /\ \A r \in 0..(total_rows - 1) :
              Cardinality({k \in DOMAIN BulkCalls : Covers(BulkCalls[k], r)}) = 1
    /\ ExampleSizes = <<500, 500, 234>>

C7_Witness ==
    /\ pc = "done"
    /\ total_rows = MaxRows
    /\ batch_size = 2
    /\ Len(BulkCalls) = CeilDiv(MaxRows, 2)
    /\ BulkCalls[Len(BulkCalls)].n = MaxRows - 2 * (CeilDiv(MaxRows, 2) - 1)

----------------------------------------------------------------------------
\* C8: a FailureRecord stands only for a record whose batch failed in bulk and
\* whose own attempt then failed (not serializable, or the write failed): never
\* for a record of a batch written in bulk, never for a record written on its
\* own, at most once per record, with row = batch start + index in the batch
\* and data the cleaned record at that position of the dataset.
C8_FailureRecords ==
    /\ \A m \in DOMAIN failed_rows :
         LET fr == failed_rows[m] IN
         /\ fr.row \in 0..(total_rows - 1)
         /\ BulkFailedFor(fr.row)
         /\ ~BulkOkFor(fr.row)
         /\ ~RowOk(fr.row)
         /\ json_dumps(fr.data) # NoExc \/ RowFailed(fr.row)
         /\ fr.data = CleanRow(data[fr.row + 1], empty_truth_raises).row
    /\ \A m, k \in DOMAIN failed_rows :
         m # k => failed_rows[m].row # failed_rows[k].row

C8_Witness ==
    /\ batch_size = 2
    /\ \E m, k \in DOMAIN failed_rows :
         /\ failed_rows[m].row = 1
         /\ failed_rows[k].row = 2
    /\ RowOk(0)

----------------------------------------------------------------------------
\* C10: failed is the length of failed_rows at every step; between batches
\* successful + failed is the number of records of the batches done, and
\* total_rows at the end, every record counted once, as written or as failed;
\* failed_rows.json is written exactly when failed_rows is not empty at the end.
DoneRows == Min(i, total_rows)
Written(r) == BulkOkFor(r) \/ RowOk(r)
C10_Accounting ==
    /\ failed = Len(failed_rows)
    /\ pc \in {"loop", "bulk"} => successful + failed = DoneRows
    /\ pc = "fallback" => successful + failed = i + idx
    /\ pc # "done" => ~artifact
    /\ pc = "done" =>
         /\ successful + failed = total_rows
         /\ artifact <=> failed_rows # <<>>
         /\ \A r \in 0..(total_rows - 1) :
              /\ Written(r) <=> FailuresOf(r) = {}
              /\ Cardinality(FailuresOf(r)) <= 1
         /\ successful = Cardinality({r \in 0..(total_rows - 1) : Written(r)})

C10_Witness ==
    /\ pc = "done"
    /\ total_rows = MaxRows
    /\ failed >= 1
    /\ successful >= 2
    /\ artifact
    /\ \E p \in DOMAIN calls : calls[p].kind = "bulk" /\ calls[p].ok

----------------------------------------------------------------------------
\* C9: convert_to_json_safe raises for no value, and no value it returns
\* holds a NaN or an Infinity; so no field of a record prepare_batch returns
\* holds one.
C9_NormalizeSafe ==
    /\ ~nraised
    /\ \A j \in DOMAIN nout : ~HasNanInf(nout[j].sku) /\ ~HasNanInf(nout[j].val)

====
